---------------------------- MODULE Spec2Model ----------------------------
(***************************************************************************)
(* Message lifecycle of yojimbo_message.h: the reference counted Message,  *)
(* the BlockMessage with its attached block, and the MessageFactory that   *)
(* creates and destroys them.                                              *)
(*                                                                         *)
(* The header is compiled in four ways: assert() is active or compiled out *)
(* (NDEBUG), and the leak tracking map exists or not                       *)
(* (YOJIMBO_DEBUG_MESSAGE_LEAKS).  Both switches are state fixed by Init.  *)
(* A failed assert() ends the process: aborted becomes TRUE and no further *)
(* call is made.                                                           *)
(***************************************************************************)
EXTENDS Integers, Sequences, FiniteSets

\* ------------------------------------------------------------------ bounds

\* Number of message-sized slots the allocators hand out (addresses 1..MaxMsgs).
MaxMsgs == 2

\* Callers take at most this many extra references on one message.
MaxAcquires == 2

\* Number of caller-owned buffers that can be attached as blocks.
NumBuffers == 1

\* Callers hold at most this many BlockMessages at a time while they attach
\* and detach blocks.
MaxBlockMsgs == 1

\* ------------------------------------------------------- program constants

NULL == 0

MESSAGE_FACTORY_ERROR_NONE == 0

MESSAGE_FACTORY_ERROR_FAILED_TO_ALLOCATE_MESSAGE == 1

\* uint32_t m_id : 16
IdModulus == 65536

\* uint32_t m_type : 15
TypeModulus == 32768

\* ------------------------------------------------------------ configuration

\* Message storage addresses; NULL is no address.
Addrs == 1..MaxMsgs

\* Block buffers the callers own; NULL is no buffer.
Buffers == 1..NumBuffers

\* Two factories of the same generated class, each built on its own allocator.
Factories == {1, 2}

Allocators == {1, 2}

\* num_message_types handed to YOJIMBO_MESSAGE_FACTORY_START.
NumMessageTypes == 3

\* The YOJIMBO_DECLARE_MESSAGE_TYPE lines of the generated factory: type 0 is
\* a plain message class, type 1 a BlockMessage class, type 2 is in range
\* but has no class declared for it.
DeclaredTypes == {0, 1}

IsBlockClass(type) == type = 1

\* What callers pass as a type, in and out of [0, numTypes-1].
TypeInputs == -1..NumMessageTypes

\* What callers pass to SetId (a uint16_t).
IdInputs == {7}

\* What callers pass as a block size.
SizeInputs == {0, 4}

VARIABLES
    ndebug,         \* TRUE: NDEBUG is defined, assert() expands to nothing
    debugLeaks,     \* TRUE: YOJIMBO_DEBUG_MESSAGE_LEAKS is non-zero
    aborted,        \* TRUE: an assert() failed or exit( 1 ) was called, the
                    \*   process is gone
    factory,        \* factory id -> the MessageFactory fields
    heap,           \* address -> the message stored there
    refs,           \* address -> references the callers hold on the message:
                    \*   1 at creation, +1 per completed AcquireMessage,
                    \*   -1 per completed ReleaseMessage
    destroyed,      \* address -> times the message created there was destroyed
    bufFreed,       \* buffer -> the allocators Free was called on for it
    last,           \* the last call and what it did
    thread,         \* thread -> where it is inside AcquireMessage or
                    \*   ReleaseMessage, and the m_refCount it has loaded
    raced           \* TRUE: a thread entered a call while another was in one

vars == <<ndebug, debugLeaks, aborted, factory, heap, refs, destroyed,
          bufFreed, last, thread, raced>>

\* What a call made as one step leaves alone: the build and the threads.
outside == <<ndebug, debugLeaks, thread, raced>>

\* ---------------------------------------------------------------- messages

\* Storage that holds no message: never allocated, or freed.
NoMessage ==
    [live |-> FALSE, m_refCount |-> 0, m_id |-> 0, m_type |-> 0,
     m_blockMessage |-> 0, m_allocator |-> NULL, m_blockData |-> NULL,
     m_blockSize |-> 0]

\* Message::Message( int blockMessage ), with BlockMessage::BlockMessage()'s
\* initialisers for the three block fields.
MessageCtor(blockMessage) ==
    [live |-> TRUE, m_refCount |-> 1, m_id |-> 0, m_type |-> 0,
     m_blockMessage |-> blockMessage, m_allocator |-> NULL,
     m_blockData |-> NULL, m_blockSize |-> 0]

\* A SetType that stores nothing.
SetType_Skipped(msg, type) == msg

\* Message::SetType, storing into the 15 bit field.
SetType(msg, type) == [msg EXCEPT !.m_type = type % TypeModulus]

\* A store into m_id that runs over into the neighbouring bit field.
SetIdField_ClobbersType(msg, id) ==
    [msg EXCEPT !.m_id = id % IdModulus, !.m_type = id % TypeModulus]

\* Message::SetId, storing into the 16 bit field.
SetIdField(msg, id) == [msg EXCEPT !.m_id = id % IdModulus]

\* An Acquire whose increment is lost.
Acquire_Dropped(msg) == msg

\* A Release whose decrement is lost.
Release_Dropped(msg) == msg

\* Message::Acquire and Message::Release after their assert.
Acquire(msg) == [msg EXCEPT !.m_refCount = @ + 1]

Release(msg) == [msg EXCEPT !.m_refCount = @ - 1]

\* The assert both of them start with.
RefCountPositive(msg) == msg.m_refCount > 0

\* A test that already fires while one reference is left.
NoReferenceLeft_AtOne(msg) == msg.m_refCount <= 1

\* ReleaseMessage's test after the decrement: message->GetRefCount() == 0.
NoReferenceLeft(msg) == msg.m_refCount = 0

\* ------------------------------------------------------------------ calls

\* The record of a call: its name, the factory it was made on, its argument,
\* the number of YOJIMBO_NEW calls it made, whether YOJIMBO_NEW returned NULL,
\* its result (CreateMessage: the message; DetachBlock: the block that was
\* attached; ClearErrorLevel: the level that was set), for AttachBlock the
\* allocator, block and size it was given, and for ~MessageFactory the
\* "leaked message" lines it printed.
Call(op, f, arg) ==
    [op |-> op, f |-> f, arg |-> arg, news |-> 0, exhausted |-> FALSE,
     result |-> NULL, block |-> <<>>, report |-> {}]

\* An assert() that reports nothing and lets the call return.
AssertFails_Continues(call) ==
    /\ last' = call
    /\ UNCHANGED <<outside, aborted, factory, heap, refs, destroyed,
                   bufFreed>>

\* Threads that call into the factory without a lock; the actions further
\* down that are not split into steps are calls made under one.
Threads == {1, 2}

Idle == [pc |-> "idle", op |-> "none", message |-> NULL, reg |-> 0]

\* assert( cond ) failing in a build that keeps assert(): the process ends
\* inside the call.
AssertFails(call) ==
    /\ aborted' = TRUE
    /\ last' = call
    /\ UNCHANGED <<outside, factory, heap, refs, destroyed, bufFreed>>

Init ==
    /\ ndebug \in BOOLEAN
    /\ debugLeaks \in BOOLEAN
    /\ aborted = FALSE
    /\ factory = [f \in Factories |->
                    [m_allocator |-> f, m_numTypes |-> NumMessageTypes,
                     m_errorLevel |-> MESSAGE_FACTORY_ERROR_NONE,
                     allocated_messages |-> {}]]
    /\ heap = [a \in Addrs |-> NoMessage]
    /\ refs = [a \in Addrs |-> 0]
    /\ destroyed = [a \in Addrs |-> 0]
    /\ bufFreed = [b \in Buffers |-> <<>>]
    /\ last = Call("none", NULL, NULL)
    /\ thread = [t \in Threads |-> Idle]
    /\ raced = FALSE

\* ------------------------------------------------------------- allocation

\* YOJIMBO_NEW( allocator, message_class ): NULL when the allocator has no
\* memory left (which it may decide at any time), else the lowest free slot.
FreeAddrs == {a \in Addrs : ~heap[a].live}

YojimboNew ==
    {NULL} \cup {a \in FreeAddrs : \A b \in FreeAddrs : a <= b}

\* YOJIMBO_FREE( allocator, p ): the Free calls it makes.
YojimboFree(allocator, p) ==
    IF p # NULL THEN <<[allocator |-> allocator, p |-> p]>> ELSE <<>>

\* bufFreed after the Free calls of one destruction (at most one call).
AfterFrees(frees) ==
    [b \in Buffers |->
        IF frees # <<>> /\ frees[1].p = b
        THEN Append(bufFreed[b], frees[1].allocator)
        ELSE bufFreed[b]]

\* ---------------------------------------------------------- MessageFactory

InRange(f, type) == type >= 0 /\ type < factory[f].m_numTypes

\* The case of the generated switch taken for a declared type, after a
\* successful YOJIMBO_NEW: construct, SetMessageType, return.
NewMessage(type) ==
    SetType(MessageCtor(IF IsBlockClass(type) THEN 1 ELSE 0), type)

\* A switch whose default branch falls into a case and allocates.
CreateMessageInternal_DefaultAllocates(type) == YojimboNew

\* CreateMessageInternal of the generated factory: what it can return.
\* An undeclared type takes the default branch and allocates nothing.
CreateMessageInternal(type) ==
    IF type \in DeclaredTypes THEN YojimboNew ELSE {NULL}

\* Number of YOJIMBO_NEW calls CreateMessageInternal makes.
AllocationsFor(type) == IF type \in DeclaredTypes THEN 1 ELSE 0

\* A failure path that forgets the error level.
CreateFailed_Silent(fac) == fac

\* CreateMessage when CreateMessageInternal returned NULL.
CreateFailed(fac) ==
    [fac EXCEPT !.m_errorLevel = MESSAGE_FACTORY_ERROR_FAILED_TO_ALLOCATE_MESSAGE]

\* A success path that resets the error level.
CreateSucceeded_ClearsError(fac, message, leaks) ==
    [fac EXCEPT !.m_errorLevel = MESSAGE_FACTORY_ERROR_NONE,
                !.allocated_messages = IF leaks THEN @ \cup {message} ELSE @]

\* A success path that does not enter the message in the leak map.
CreateSucceeded_Untracked(fac, message, leaks) == fac

\* A success path that takes the failure branch's assignment along.
CreateSucceeded_FlagsError(fac, message, leaks) ==
    [fac EXCEPT
        !.m_errorLevel = MESSAGE_FACTORY_ERROR_FAILED_TO_ALLOCATE_MESSAGE,
        !.allocated_messages = IF leaks THEN @ \cup {message} ELSE @]

\* CreateMessage when it returned a message: the leak map entry, if compiled.
CreateSucceeded(fac, message, leaks) ==
    IF leaks
    THEN [fac EXCEPT !.allocated_messages = @ \cup {message}]
    ELSE fac

CreateMessage(f, type) ==
    /\ ~aborted
    /\ LET call == Call("CreateMessage", f, type)
       IN  IF ~ndebug /\ ~InRange(f, type)
           THEN AssertFails(call)
           ELSE \E message \in CreateMessageInternal(type) :
                  IF message = NULL
                  THEN /\ factory' = [factory EXCEPT ![f] = CreateFailed(@)]
                       /\ last' = [call EXCEPT
                                      !.news = AllocationsFor(type),
                                      !.exhausted = (AllocationsFor(type) > 0)]
                       /\ UNCHANGED <<outside, aborted, heap, refs,
                                      destroyed, bufFreed>>
                  ELSE /\ heap' = [heap EXCEPT ![message] = NewMessage(type)]
                       /\ factory' = [factory EXCEPT ![f] =
                                CreateSucceeded(@, message, debugLeaks)]
                       /\ refs' = [refs EXCEPT ![message] = 1]
                       /\ destroyed' = [destroyed EXCEPT ![message] = 0]
                       /\ last' = [call EXCEPT
                                      !.news = AllocationsFor(type),
                                      !.result = message]
                       /\ UNCHANGED <<outside, aborted, bufFreed>>

\* MessageFactory::AcquireMessage on the message `stored` read at `message`.
AcquireMessageOn(f, message, stored) ==
    LET call == Call("AcquireMessage", f, message)
    IN  IF message = NULL
        THEN IF ~ndebug
             THEN AssertFails(call)
             ELSE /\ last' = call
                  /\ UNCHANGED <<outside, aborted, factory, heap,
                                 refs, destroyed, bufFreed>>
        ELSE IF ~ndebug /\ ~RefCountPositive(stored)
             THEN AssertFails(call)
             ELSE /\ heap' = [heap EXCEPT ![message] = Acquire(stored)]
                  /\ refs' = [refs EXCEPT ![message] = @ + 1]
                  /\ last' = call
                  /\ UNCHANGED <<outside, aborted, factory,
                                 destroyed, bufFreed>>

\* A destructor that frees the block through the factory's allocator.
DestructorFrees_ViaFactory(msg, fac) ==
    IF msg.m_blockMessage = 1 /\ msg.m_allocator # NULL
    THEN YojimboFree(fac.m_allocator, msg.m_blockData)
    ELSE <<>>

\* ~BlockMessage: the Free calls made when the dying message is a
\* BlockMessage with m_allocator set.
DestructorFrees(msg, fac) ==
    IF msg.m_blockMessage = 1 /\ msg.m_allocator # NULL
    THEN YojimboFree(msg.m_allocator, msg.m_blockData)
    ELSE <<>>

\* A release that leaves the entry in the leak map.
Erase_Forgets(fac, message, leaks) == fac

\* The leak map lines of ReleaseMessage: the assert on find(), then erase().
TrackedHere(fac, message) == message \in fac.allocated_messages

Erase(fac, message, leaks) ==
    IF leaks
    THEN [fac EXCEPT !.allocated_messages = @ \ {message}]
    ELSE fac

\* MessageFactory::ReleaseMessage on the message `stored` read at `message`.
ReleaseMessageOn(f, message, stored) ==
    LET call == Call("ReleaseMessage", f, message)
    IN  IF message = NULL
        THEN IF ~ndebug
             THEN AssertFails(call)
             ELSE /\ last' = call
                  /\ UNCHANGED <<outside, aborted, factory, heap,
                                 refs, destroyed, bufFreed>>
        ELSE IF ~ndebug /\ ~RefCountPositive(stored)
             THEN AssertFails(call)
             ELSE LET msg == Release(stored)
                  IN  IF NoReferenceLeft(msg)
                      THEN IF debugLeaks /\ ~ndebug
                              /\ ~TrackedHere(factory[f], message)
                           THEN AssertFails(call)
                           ELSE /\ factory' = [factory EXCEPT ![f] =
                                        Erase(@, message, debugLeaks)]
                                /\ heap' = [heap EXCEPT ![message] = NoMessage]
                                /\ bufFreed' =
                                      AfterFrees(DestructorFrees(msg, factory[f]))
                                /\ destroyed' =
                                      [destroyed EXCEPT ![message] = @ + 1]
                                /\ refs' = [refs EXCEPT ![message] = @ - 1]
                                /\ last' = call
                                /\ UNCHANGED <<outside, aborted>>
                      ELSE /\ heap' = [heap EXCEPT ![message] = msg]
                           /\ refs' = [refs EXCEPT ![message] = @ - 1]
                           /\ last' = call
                           /\ UNCHANGED <<outside, aborted, factory,
                                          destroyed, bufFreed>>

\* Callers holding a valid pointer, or NULL.
AcquireMessage(f, message) ==
    /\ ~aborted
    /\ message # NULL => heap[message].live /\ refs[message] <= MaxAcquires
    /\ AcquireMessageOn(f, message,
                        IF message = NULL THEN NoMessage ELSE heap[message])

ReleaseMessage(f, message) ==
    /\ ~aborted
    /\ message # NULL => heap[message].live
    /\ ReleaseMessageOn(f, message,
                        IF message = NULL THEN NoMessage ELSE heap[message])

\* A ClearErrorLevel that clears nothing.
ClearedFactory_Kept(fac) == fac

\* MessageFactory::ClearErrorLevel
ClearedFactory(fac) ==
    [fac EXCEPT !.m_errorLevel = MESSAGE_FACTORY_ERROR_NONE]

ClearErrorLevel(f) ==
    /\ ~aborted
    /\ factory' = [factory EXCEPT ![f] = ClearedFactory(@)]
    /\ last' = [Call("ClearErrorLevel", f, NULL)
                    EXCEPT !.result = factory[f].m_errorLevel]
    /\ UNCHANGED <<outside, aborted, heap, refs, destroyed, bufFreed>>

\* A report that is only made when several messages leaked.
LeakReport_OnlySeveral(fac) ==
    IF Cardinality(fac.allocated_messages) > 1
    THEN {[message |-> a, type |-> heap[a].m_type,
           refcount |-> heap[a].m_refCount] : a \in fac.allocated_messages}
    ELSE {}

\* The "leaked message %p (type %d, refcount %d)" lines ~MessageFactory
\* prints: one per entry of allocated_messages.
LeakReport(fac) ==
    {[message |-> a, type |-> heap[a].m_type,
      refcount |-> heap[a].m_refCount] : a \in fac.allocated_messages}

\* The factory object exists: constructed and not yet destructed.
Constructed(f) == factory[f].m_allocator # NULL

\* MessageFactory::~MessageFactory.  In a leak tracking build a non-empty
\* allocated_messages is printed and the process ends in exit( 1 ).
DestroyFactory(f) ==
    /\ ~aborted
    /\ Constructed(f)
    /\ factory' = [factory EXCEPT ![f].m_allocator = NULL]
    /\ last' = [Call("~MessageFactory", f, NULL) EXCEPT
                    !.report = IF debugLeaks THEN LeakReport(factory[f]) ELSE {}]
    /\ aborted' = (debugLeaks /\ factory[f].allocated_messages # {})
    /\ UNCHANGED <<outside, heap, refs, destroyed, bufFreed>>

\* ----------------------------------------------------------------- Message

\* Message::SetId, called by the channel that sends the message.
SetId(message, id) ==
    /\ ~aborted
    /\ heap[message].live
    /\ heap' = [heap EXCEPT ![message] = SetIdField(@, id)]
    /\ last' = Call("SetId", NULL, message)
    /\ UNCHANGED <<outside, aborted, factory, refs, destroyed,
                   bufFreed>>

\* A getter: returns the value read and writes nothing.  IsBlockMessage
\* returns the bit as 1 (true) or 0 (false).
Get(op, message, value) ==
    /\ ~aborted
    /\ heap[message].live
    /\ last' = [Call(op, NULL, message) EXCEPT !.result = value]
    /\ UNCHANGED <<outside, aborted, factory, heap, refs, destroyed,
                   bufFreed>>

GetId(message) == Get("GetId", message, heap[message].m_id)

GetType(message) == Get("GetType", message, heap[message].m_type)

GetRefCount(message) == Get("GetRefCount", message, heap[message].m_refCount)

IsBlockMessage(message) ==
    Get("IsBlockMessage", message, heap[message].m_blockMessage)

\* ------------------------------------------------------------ BlockMessage

\* The three asserts of AttachBlock.
AttachAllowed(msg, blockData, blockSize) ==
    /\ blockData # NULL
    /\ blockSize > 0
    /\ msg.m_blockData = NULL

\* The three assignments of AttachBlock.
Attached(msg, allocator, blockData, blockSize) ==
    [msg EXCEPT !.m_allocator = allocator,
                !.m_blockData = blockData,
                !.m_blockSize = blockSize]

\* A DetachBlock that leaves the size behind.
Detached_KeepsSize(msg) ==
    [msg EXCEPT !.m_allocator = NULL, !.m_blockData = NULL]

\* A DetachBlock that only forgets the size.
Detached_KeepsBlock(msg) == [msg EXCEPT !.m_blockSize = 0]

\* A DetachBlock that leaves the allocator behind.
Detached_KeepsAllocator(msg) ==
    [msg EXCEPT !.m_blockData = NULL, !.m_blockSize = 0]

\* The three assignments of DetachBlock.
Detached(msg) ==
    [msg EXCEPT !.m_allocator = NULL, !.m_blockData = NULL, !.m_blockSize = 0]

\* Buffers a caller can hand over: its own, neither freed nor held by a message.
CallerOwned ==
    {b \in Buffers :
        /\ bufFreed[b] = <<>>
        /\ \A a \in Addrs : ~(heap[a].live /\ heap[a].m_blockData = b)}

AttachBlock(message, allocator, blockData, blockSize) ==
    /\ ~aborted
    /\ heap[message].live
    /\ heap[message].m_blockMessage = 1
    /\ blockData \in CallerOwned \cup {NULL}
    /\ LET call == [Call("AttachBlock", NULL, message)
                       EXCEPT !.block = <<allocator, blockData, blockSize>>]
       IN  IF ~ndebug /\ ~AttachAllowed(heap[message], blockData, blockSize)
           THEN AssertFails(call)
           ELSE /\ heap' = [heap EXCEPT ![message] =
                        Attached(@, allocator, blockData, blockSize)]
                /\ last' = call
                /\ UNCHANGED <<outside, aborted, factory, refs,
                               destroyed, bufFreed>>

DetachBlock(message) ==
    /\ ~aborted
    /\ heap[message].live
    /\ heap[message].m_blockMessage = 1
    /\ heap' = [heap EXCEPT ![message] = Detached(@)]
    /\ last' = [Call("DetachBlock", NULL, message)
                    EXCEPT !.result = heap[message].m_blockData]
    /\ UNCHANGED <<outside, aborted, factory, refs, destroyed,
                   bufFreed>>

\* ---------------------------------------------------------------- threads

\* AcquireMessage and ReleaseMessage as the processor runs them when no lock
\* is held: m_refCount++ and m_refCount-- are a load, an add and a store of a
\* plain int, and ReleaseMessage loads the count again for its test.

\* Calls of `op` on `message` that threads are inside of.
InFlight(op, message) ==
    Cardinality({t \in Threads :
                    /\ thread[t].pc # "idle"
                    /\ thread[t].op = op
                    /\ thread[t].message = message})

\* Thread t enters the call: assert( m_refCount > 0 ) and the load.  The
\* caller holds a reference that no call in progress is giving up.
Load(t, op, message) ==
    /\ ~aborted
    /\ thread[t].pc = "idle"
    /\ heap[message].live
    /\ refs[message] - InFlight("ReleaseMessage", message) >= 1
    /\ op = "AcquireMessage"
          => /\ refs[message] + InFlight("AcquireMessage", message) <= MaxAcquires
             /\ heap[message].m_refCount <= MaxAcquires
    /\ op = "ReleaseMessage" => heap[message].m_refCount > -MaxAcquires
    /\ IF ~ndebug /\ ~RefCountPositive(heap[message])
       THEN AssertFails(Call(op, 1, message))
       ELSE /\ thread' = [thread EXCEPT ![t] =
                    [pc |-> "store", op |-> op, message |-> message,
                     reg |-> heap[message].m_refCount]]
            /\ raced' = (raced \/ \E u \in Threads \ {t} : thread[u].pc # "idle")
            /\ UNCHANGED <<ndebug, debugLeaks, aborted, factory, heap, refs,
                           destroyed, bufFreed, last>>

\* Thread t stores the count it loaded, plus or minus one.  AcquireMessage
\* returns; ReleaseMessage goes on to its test.
Store(t) ==
    /\ ~aborted
    /\ thread[t].pc = "store"
    /\ LET message == thread[t].message
           seen == [heap[message] EXCEPT !.m_refCount = thread[t].reg]
       IN  IF thread[t].op = "AcquireMessage"
           THEN /\ heap' = [heap EXCEPT ![message].m_refCount =
                                Acquire(seen).m_refCount]
                /\ refs' = [refs EXCEPT ![message] = @ + 1]
                /\ last' = Call("AcquireMessage", 1, message)
                /\ thread' = [thread EXCEPT ![t] = Idle]
                /\ UNCHANGED <<ndebug, debugLeaks, aborted, factory, destroyed,
                               bufFreed, raced>>
           ELSE /\ heap' = [heap EXCEPT ![message].m_refCount =
                                Release(seen).m_refCount]
                /\ thread' = [thread EXCEPT ![t].pc = "test"]
                /\ UNCHANGED <<ndebug, debugLeaks, aborted, factory, refs,
                               destroyed, bufFreed, last, raced>>

\* Thread t in ReleaseMessage: if ( message->GetRefCount() == 0 ) with the
\* leak map lines and YOJIMBO_DELETE, then return.
Test(t) ==
    /\ ~aborted
    /\ thread[t].pc = "test"
    /\ LET message == thread[t].message
           call == Call("ReleaseMessage", 1, message)
       IN  IF NoReferenceLeft(heap[message])
           THEN IF debugLeaks /\ ~ndebug /\ ~TrackedHere(factory[1], message)
                THEN AssertFails(call)
                ELSE /\ factory' = [factory EXCEPT ![1] =
                                        Erase(@, message, debugLeaks)]
                     /\ heap' = [heap EXCEPT ![message] = NoMessage]
                     /\ bufFreed' =
                           AfterFrees(DestructorFrees(heap[message], factory[1]))
                     /\ destroyed' = [destroyed EXCEPT ![message] = @ + 1]
                     /\ refs' = [refs EXCEPT ![message] = @ - 1]
                     /\ last' = call
                     /\ thread' = [thread EXCEPT ![t] = Idle]
                     /\ UNCHANGED <<ndebug, debugLeaks, aborted, raced>>
           ELSE /\ refs' = [refs EXCEPT ![message] = @ - 1]
                /\ last' = call
                /\ thread' = [thread EXCEPT ![t] = Idle]
                /\ UNCHANGED <<ndebug, debugLeaks, aborted, factory, heap,
                               destroyed, bufFreed, raced>>

\* -------------------------------------------------------- specifications

\* Calls on a destroyed message read and write freed memory.  What is found
\* there is what the destructor left (m_refCount = 0) until the allocator
\* uses the memory for itself, after which it is anything (here 1).
ScribbleFreed(message) ==
    /\ ~aborted
    /\ ~heap[message].live
    /\ destroyed[message] = 1
    /\ heap[message].m_refCount = 0
    /\ heap' = [heap EXCEPT ![message].m_refCount = 1]
    /\ last' = Call("ScribbleFreed", NULL, message)
    /\ UNCHANGED <<outside, aborted, factory, refs, destroyed,
                   bufFreed>>

AcquireMessageStale(f, message) ==
    /\ ~aborted
    /\ ~heap[message].live
    /\ destroyed[message] > 0
    /\ refs[message] <= MaxAcquires
    /\ AcquireMessageOn(f, message, heap[message])

ReleaseMessageStale(f, message) ==
    /\ ~aborted
    /\ ~heap[message].live
    /\ destroyed[message] = 1
    /\ refs[message] > -MaxAcquires
    /\ ReleaseMessageOn(f, message, heap[message])

\* The factory's message lifecycle: one factory, its messages, their ids.
Next ==
    \/ \E type \in TypeInputs : CreateMessage(1, type)
    \/ \E m \in Addrs \cup {NULL} : AcquireMessage(1, m)
    \/ \E m \in Addrs \cup {NULL} : ReleaseMessage(1, m)
    \/ ClearErrorLevel(1)
    \/ \E m \in Addrs, id \in IdInputs : SetId(m, id)

Spec == Init /\ [][Next]_vars

\* BlockMessages and their blocks.
NextBlock ==
    \/ \E type \in {1, 2} :
          /\ Cardinality({a \in Addrs : heap[a].live}) < MaxBlockMsgs
          /\ CreateMessage(1, type)
    \/ \E m \in Addrs : AcquireMessage(1, m)
    \/ \E m \in Addrs : ReleaseMessage(1, m)
    \/ \E m \in Addrs, a \in Allocators, d \in Buffers \cup {NULL},
          n \in SizeInputs : AttachBlock(m, a, d, n)
    \/ \E m \in Addrs : DetachBlock(m)

SpecBlock == Init /\ [][NextBlock]_vars

\* The lifecycle with callers that also use pointers to destroyed messages.
NextStale ==
    \/ \E type \in DeclaredTypes : CreateMessage(1, type)
    \/ \E m \in Addrs : AcquireMessage(1, m)
    \/ \E m \in Addrs : ReleaseMessage(1, m)
    \/ \E m \in Addrs : AcquireMessageStale(1, m)
    \/ \E m \in Addrs : ReleaseMessageStale(1, m)
    \/ \E m \in Addrs : ScribbleFreed(m)

SpecStale == Init /\ [][NextStale]_vars

\* One factory from construction to destruction.
NextTeardown ==
    \/ \E type \in 0..(NumMessageTypes - 1) :
          Constructed(1) /\ CreateMessage(1, type)
    \/ \E m \in Addrs : Constructed(1) /\ AcquireMessage(1, m)
    \/ \E m \in Addrs : Constructed(1) /\ ReleaseMessage(1, m)
    \/ \E m \in Addrs, id \in IdInputs : SetId(m, id)
    \/ DestroyFactory(1)

SpecTeardown == Init /\ [][NextTeardown]_vars

\* A session whose holders give back what they hold: every reference held on
\* a message is eventually released, and the factory is destructed only when
\* no message is left.
NoMessageLive == \A a \in Addrs : ~heap[a].live

NextLive ==
    \/ \E type \in DeclaredTypes : Constructed(1) /\ CreateMessage(1, type)
    \/ \E m \in Addrs : Constructed(1) /\ AcquireMessage(1, m)
    \/ \E m \in Addrs : Constructed(1) /\ ReleaseMessage(1, m)
    \/ NoMessageLive /\ DestroyFactory(1)

SpecLive ==
    /\ Init
    /\ [][NextLive]_vars
    /\ \A m \in Addrs : WF_vars(Constructed(1) /\ ReleaseMessage(1, m))

\* Two factories: the first creates the messages, callers release them
\* through either.
NextForeign ==
    \/ \E type \in DeclaredTypes : CreateMessage(1, type)
    \/ \E m \in Addrs : AcquireMessage(1, m)
    \/ \E f \in Factories, m \in Addrs : ReleaseMessage(f, m)

SpecForeign == Init /\ [][NextForeign]_vars

\* Everything a caller does with the message it holds, one message at a time.
NextMessage ==
    \/ \E type \in DeclaredTypes : NoMessageLive /\ CreateMessage(1, type)
    \/ \E m \in Addrs : AcquireMessage(1, m)
    \/ \E m \in Addrs : ReleaseMessage(1, m)
    \/ ClearErrorLevel(1)
    \/ \E m \in Addrs, id \in IdInputs : SetId(m, id)
    \/ \E m \in Addrs, a \in Allocators, d \in Buffers \cup {NULL},
          n \in SizeInputs : AttachBlock(m, a, d, n)
    \/ \E m \in Addrs : DetachBlock(m)
    \/ \E m \in Addrs : GetId(m)
    \/ \E m \in Addrs : GetType(m)
    \/ \E m \in Addrs : GetRefCount(m)
    \/ \E m \in Addrs : IsBlockMessage(m)

SpecMessage == Init /\ [][NextMessage]_vars

\* Two threads that acquire and release one message with no lock held.
NextRace ==
    \/ \E type \in DeclaredTypes : NoMessageLive /\ CreateMessage(1, type)
    \/ \E t \in Threads, m \in Addrs : Load(t, "AcquireMessage", m)
    \/ \E t \in Threads, m \in Addrs : Load(t, "ReleaseMessage", m)
    \/ \E t \in Threads : Store(t)
    \/ \E t \in Threads : Test(t)

SpecRace == Init /\ [][NextRace]_vars

\* ------------------------------------------------------------------ claims

ErrorLevel(f) == factory[f].m_errorLevel

FAILED == MESSAGE_FACTORY_ERROR_FAILED_TO_ALLOCATE_MESSAGE

\* The step destroys the message at address a.
DestroyedNow(a) == destroyed'[a] = destroyed[a] + 1

\* The step is a completed ReleaseMessage on the message at a that gives up
\* the last reference held on it: Releases = 1 + Acquires from here on.
LastReleaseNow(a) ==
    /\ last'.op = "ReleaseMessage"
    /\ last'.arg = a
    /\ ~aborted'
    /\ heap[a].live
    /\ refs[a] = 1
    /\ refs'[a] = 0

C1_State ==
    \A a \in Addrs :
        /\ destroyed[a] <= 1
        /\ heap[a].live => destroyed[a] = 0 /\ refs[a] >= 1
        /\ ~heap[a].live => refs[a] = 0

\* C1: a message is destroyed exactly in the ReleaseMessage call that makes
\* the number of Releases equal 1 + the number of Acquires: not in any other
\* step, always in that one, and at most once.
C1_DestroyedExactlyAtLastRelease ==
    /\ []C1_State
    /\ [][\A a \in Addrs : DestroyedNow(a) <=> LastReleaseNow(a)]_vars

\* A message was acquired, and then destroyed by its last release.
C1_Witness ==
    \E a \in Addrs :
        /\ last.op = "ReleaseMessage"
        /\ last.arg = a
        /\ destroyed[a] = 1
        /\ ~heap[a].live
        /\ refs[a] = 0

\* C2: a successful CreateMessage(type) with 0 <= type < numTypes returns a
\* message with GetType() = type, GetRefCount() = 1 and id 0, which is in the
\* factory's tracking set when leak tracking is compiled in.
C2_CreatedMessage ==
    (/\ last.op = "CreateMessage"
     /\ last.result # NULL
     /\ last.arg >= 0
     /\ last.arg < factory[last.f].m_numTypes)
    => /\ heap[last.result].live
       /\ heap[last.result].m_type = last.arg
       /\ heap[last.result].m_refCount = 1
       /\ heap[last.result].m_id = 0
       /\ debugLeaks => last.result \in factory[last.f].allocated_messages

\* A BlockMessage class message of type 1 was just created under leak tracking
\* while another message, with an id set, is alive.
C2_Witness ==
    /\ last.op = "CreateMessage"
    /\ last.result # NULL
    /\ last.arg = 1
    /\ debugLeaks
    /\ \E a \in Addrs : a # last.result /\ heap[a].live /\ heap[a].m_id # 0

\* C3: when the allocator is exhausted CreateMessage returns NULL, sets the
\* error level to FAILED_TO_ALLOCATE and changes nothing else: no message
\* appears, the tracking set and every existing message stay as they were.
C3_ExhaustedCreate ==
    [][(last'.op = "CreateMessage" /\ last'.exhausted)
        => /\ last'.result = NULL
           /\ ~aborted'
           /\ factory'[last'.f].m_errorLevel = FAILED
           /\ heap' = heap
           /\ \A f \in Factories :
                /\ factory'[f].allocated_messages = factory[f].allocated_messages
                /\ factory'[f].m_allocator = factory[f].m_allocator
                /\ factory'[f].m_numTypes = factory[f].m_numTypes
                /\ f # last'.f => factory'[f] = factory[f]
           /\ refs' = refs
           /\ destroyed' = destroyed
           /\ bufFreed' = bufFreed]_vars

\* An exhausted CreateMessage happened while a message with an id set and two
\* references was alive.
C3_Witness ==
    /\ last.op = "CreateMessage"
    /\ last.exhausted
    /\ ErrorLevel(last.f) = FAILED
    /\ \E a \in Addrs :
          heap[a].live /\ heap[a].m_id # 0 /\ heap[a].m_refCount = 2

\* C4: once the error level is FAILED_TO_ALLOCATE it stays so through every
\* call but ClearErrorLevel on that factory.
C4_ErrorLevelSticky ==
    [][\A f \in Factories :
         (/\ ErrorLevel(f) = FAILED
          /\ ~(last'.op = "ClearErrorLevel" /\ last'.f = f))
         => ErrorLevel(f)' = FAILED]_vars

\* A CreateMessage succeeded while the error level was FAILED_TO_ALLOCATE.
C4_Witness ==
    /\ last.op = "CreateMessage"
    /\ last.result # NULL
    /\ ErrorLevel(last.f) = FAILED

C5_State ==
    /\ last.op = "none" => \A f \in Factories : ErrorLevel(f) = MESSAGE_FACTORY_ERROR_NONE
    /\ last.op = "ClearErrorLevel" => ErrorLevel(last.f) = MESSAGE_FACTORY_ERROR_NONE

\* C5: a new factory has error level NONE, ClearErrorLevel sets it to NONE
\* from any level, and a successful CreateMessage made at NONE leaves NONE.
C5_ErrorLevelNone ==
    /\ []C5_State
    /\ [][\A f \in Factories :
            (/\ ErrorLevel(f) = MESSAGE_FACTORY_ERROR_NONE
             /\ last'.op = "CreateMessage"
             /\ last'.f = f
             /\ last'.result # NULL)
            => ErrorLevel(f)' = MESSAGE_FACTORY_ERROR_NONE]_vars

\* ClearErrorLevel was just called on a factory whose level was
\* FAILED_TO_ALLOCATE.
C5_Witness ==
    /\ last.op = "ClearErrorLevel"
    /\ last.result = FAILED
    /\ ErrorLevel(last.f) = MESSAGE_FACTORY_ERROR_NONE

\* C6: CreateMessage with a type outside [0, numTypes-1] is rejected as a
\* usage defect: the call fails its assert, allocates nothing, and creates or
\* tracks no message.
C6_OutOfRangeRejected ==
    [][(/\ last'.op = "CreateMessage"
        /\ ~(last'.arg >= 0 /\ last'.arg < factory[last'.f].m_numTypes))
        => /\ aborted'
           /\ last'.news = 0
           /\ last'.result = NULL
           /\ heap' = heap
           /\ factory' = factory]_vars

\* C7: a ReleaseMessage on a message whose refCount has already reached 0 is
\* detected: the call does not complete, the count does not go below 0, and
\* the message is not destroyed a second time.
C7_ReleaseAfterZeroDetected ==
    [][\A a \in Addrs :
         (/\ last'.op = "ReleaseMessage"
          /\ last'.arg = a
          /\ ~heap[a].live
          /\ destroyed[a] >= 1
          /\ heap[a].m_refCount = 0)
         => /\ aborted'
            /\ heap'[a].m_refCount >= 0
            /\ destroyed'[a] = destroyed[a]]_vars

\* C8: a BlockMessage destroyed while a block is attached causes exactly one
\* Free call, on the allocator AttachBlock recorded in the message, with the
\* attached block pointer; no other buffer is freed.
C8_AttachedBlockFreedOnce ==
    [][\A a \in Addrs, b \in Buffers :
         (/\ DestroyedNow(a)
          /\ heap[a].m_blockMessage = 1
          /\ heap[a].m_allocator # NULL
          /\ heap[a].m_blockData = b)
         => /\ bufFreed'[b] = Append(bufFreed[b], heap[a].m_allocator)
            /\ \A c \in Buffers \ {b} : bufFreed'[c] = bufFreed[c]]_vars

\* A message was just destroyed and its block was freed through allocator 2,
\* which is not the allocator of the factory that destroyed it.
C8_Witness ==
    /\ last.op = "ReleaseMessage"
    /\ destroyed[last.arg] = 1
    /\ factory[last.f].m_allocator = 1
    /\ \E b \in Buffers : bufFreed[b] = <<2>>

C9_State ==
    last.op = "DetachBlock"
    => /\ heap[last.arg].m_blockData = NULL
       /\ heap[last.arg].m_blockSize = 0
       /\ heap[last.arg].m_allocator = NULL
       /\ last.result \in Buffers => bufFreed[last.result] = <<>>

\* C9: after AttachBlock and then DetachBlock the three getters report no
\* block (NULL, 0, NULL), and neither call frees a buffer.
C9_AttachThenDetach ==
    /\ []C9_State
    /\ [][last'.op \in {"AttachBlock", "DetachBlock"}
            => bufFreed' = bufFreed]_vars

\* DetachBlock was just called on a message that had a block attached.
C9_Witness ==
    /\ last.op = "DetachBlock"
    /\ last.result \in Buffers
    /\ heap[last.arg].live
    /\ bufFreed[last.result] = <<>>

\* C10: AttachBlock on a message that already holds a block, or with a NULL
\* block or a size <= 0, fails its assert and leaves the three block fields
\* of the message as they were.
C10_AttachRejected ==
    [][\A a \in Addrs :
         (/\ last'.op = "AttachBlock"
          /\ last'.arg = a
          /\ \/ heap[a].m_blockData # NULL
             \/ last'.block[2] = NULL
             \/ last'.block[3] <= 0)
         => /\ aborted'
            /\ heap'[a] = heap[a]]_vars

\* A call was made with no message.
NullCall ==
    /\ last'.op \in {"AcquireMessage", "ReleaseMessage"}
    /\ last'.arg = NULL

\* The call changed no message, destroyed nothing and left every factory
\* (tracking set, error level) as it was.
NothingChanged ==
    /\ heap' = heap
    /\ refs' = refs
    /\ destroyed' = destroyed
    /\ factory' = factory
    /\ bufFreed' = bufFreed

\* C11 as stated: AcquireMessage and ReleaseMessage called with NULL return
\* normally, change no refCount, destroy nothing and leave the tracking set
\* and the error level unchanged.
C11_NullIsNoOp ==
    [][NullCall => ~aborted' /\ NothingChanged]_vars

\* C11 as amended: AcquireMessage and ReleaseMessage called with NULL change
\* no refCount, destroy nothing and leave the tracking set and the error
\* level unchanged; they return normally exactly when assert() is compiled
\* out, and fail assert( message ) otherwise.
C11_NullChangesNothing ==
    [][NullCall => (aborted' <=> ~ndebug) /\ NothingChanged]_vars

\* ReleaseMessage( NULL ) returned while a tracked message with two
\* references was alive and the error level was set.
C11_Witness ==
    /\ last.op = "ReleaseMessage"
    /\ last.arg = NULL
    /\ ~aborted
    /\ ErrorLevel(last.f) = FAILED
    /\ \E a \in Addrs :
          /\ heap[a].m_refCount = 2
          /\ a \in factory[last.f].allocated_messages

\* The messages that were created and are not destroyed, each with its type
\* and the number of references held on it.
LiveMessages ==
    {[message |-> a, type |-> heap[a].m_type, refcount |-> refs[a]] :
        a \in {b \in Addrs : heap[b].live}}

\* C12: with leak tracking compiled in, ~MessageFactory prints exactly one
\* "leaked message" line for each message the factory created that is not
\* yet destroyed, with that message's type and reference count, and prints
\* nothing when no such message exists.
C12_TeardownReportsLeaks ==
    [][(last'.op = "~MessageFactory" /\ debugLeaks)
        => /\ last'.report = LiveMessages
           /\ Cardinality(last'.report) =
                 Cardinality({a \in Addrs : heap[a].live})]_vars

\* Two messages were created, one of them was released, and the factory was
\* destructed: one line was printed, for the other message, with refcount 1.
C12_Witness ==
    /\ last.op = "~MessageFactory"
    /\ debugLeaks
    /\ \E a, b \in Addrs :
          /\ destroyed[a] = 1
          /\ ~heap[a].live
          /\ heap[b].live
          /\ last.report = {[message |-> b, type |-> 1, refcount |-> 1]}

\* C13: when the holders release every reference they hold (one per
\* AcquireMessage, which they call finitely often on a message, plus the one
\* from creation), every created message is eventually destroyed; and a
\* ~MessageFactory that runs when all are destroyed finds allocated_messages
\* empty, prints no leak and does not exit.
C13_AllReleasedAllDestroyed ==
    /\ \A a \in Addrs :
          \/ []<><<last'.op = "AcquireMessage" /\ last'.arg = a>>_vars
          \/ heap[a].live ~> (~heap[a].live /\ destroyed[a] = 1)
    /\ [][(last'.op = "~MessageFactory" /\ NoMessageLive)
            => /\ factory[last'.f].allocated_messages = {}
               /\ last'.report = {}
               /\ ~aborted']_vars

\* The factory was destructed after a message with three references and
\* another message were created and destroyed, with leak tracking compiled in.
C13_Witness ==
    /\ last.op = "~MessageFactory"
    /\ debugLeaks
    /\ ~aborted
    /\ \A a \in Addrs : destroyed[a] = 1 /\ ~heap[a].live

C14_State ==
    \A a \in Addrs :
        heap[a].live
        => /\ heap[a].m_refCount >= 1
           /\ heap[a].m_refCount = refs[a]

\* C14: every message that is created and not destroyed has m_refCount >= 1
\* and m_refCount = 1 + AcquireMessage calls - ReleaseMessage calls on it, and
\* its m_refCount changes only in an AcquireMessage on it, by +1, or in a
\* ReleaseMessage on it, by -1.
C14_RefCountIsReferences ==
    /\ []C14_State
    /\ [][\A a \in Addrs :
            (/\ heap[a].live
             /\ heap'[a].live
             /\ heap'[a].m_refCount # heap[a].m_refCount)
            => \/ /\ last'.op = "AcquireMessage"
                  /\ last'.arg = a
                  /\ heap'[a].m_refCount = heap[a].m_refCount + 1
               \/ /\ last'.op = "ReleaseMessage"
                  /\ last'.arg = a
                  /\ heap'[a].m_refCount = heap[a].m_refCount - 1]_vars

\* A message that was acquired twice was just released once and lives on
\* with two references, beside another live message.
C14_Witness ==
    /\ last.op = "ReleaseMessage"
    /\ last.arg # NULL
    /\ heap[last.arg].live
    /\ heap[last.arg].m_refCount = 2
    /\ \E b \in Addrs : b # last.arg /\ heap[b].live /\ heap[b].m_refCount = 3

\* C15: a destroyed message stays destroyed: an AcquireMessage on a message
\* whose refCount reached 0 and that was destroyed fails its assert, and the
\* count found there is not raised from 0 to 1.
C15_AcquireAfterDestroyDetected ==
    [][\A a \in Addrs :
         (/\ last'.op = "AcquireMessage"
          /\ last'.arg = a
          /\ ~heap[a].live
          /\ destroyed[a] >= 1
          /\ heap[a].m_refCount = 0)
         => /\ aborted'
            /\ heap'[a].m_refCount = 0]_vars

Tracked(f) == factory[f].allocated_messages

\* The messages factory 1, the only one that creates, has created and not
\* destroyed.
C16_State ==
    debugLeaks
    => /\ Tracked(1) = {a \in Addrs : heap[a].live}
       /\ Tracked(2) = {}

\* C16: with leak tracking compiled in, allocated_messages is exactly the set
\* of messages the factory created that are not destroyed: a successful
\* CreateMessage adds the message, the ReleaseMessage that destroys a message
\* removes it, and every other call (AcquireMessage, a ReleaseMessage that
\* leaves references, a failed CreateMessage) leaves the set unchanged.
C16_TrackingSetIsLiveSet ==
    /\ []C16_State
    /\ [][debugLeaks
            => \A f \in Factories :
                 Tracked(f)' =
                    IF /\ last'.op = "CreateMessage"
                       /\ last'.f = f
                       /\ last'.result # NULL
                    THEN Tracked(f) \cup {last'.result}
                    ELSE IF /\ last'.op = "ReleaseMessage"
                            /\ last'.f = f
                            /\ last'.arg # NULL
                            /\ DestroyedNow(last'.arg)
                         THEN Tracked(f) \ {last'.arg}
                         ELSE Tracked(f)]_vars

\* With leak tracking, a message was just destroyed by its last release and
\* left the set, in which another message remains.
C16_Witness ==
    /\ debugLeaks
    /\ last.op = "ReleaseMessage"
    /\ last.arg # NULL
    /\ destroyed[last.arg] = 1
    /\ ~heap[last.arg].live
    /\ \E b \in Addrs : b # last.arg /\ Tracked(last.f) = {b} /\ heap[b].live

\* The step frees buffer b.
FreedNow(b) == bufFreed'[b] # bufFreed[b]

C17_State == \A b \in Buffers : Len(bufFreed[b]) <= 1

\* C17: DetachBlock frees nothing and leaves the detached buffer with the
\* caller: no message holds it afterwards, and destroying the message after
\* its DetachBlock frees nothing.  A buffer is freed only in the step that
\* destroys the message it is attached to at that moment, and at most once.
C17_DetachedNeverFreed ==
    /\ []C17_State
    /\ [][last'.op = "DetachBlock"
            => /\ bufFreed' = bufFreed
               /\ \A a \in Addrs :
                     last'.result \in Buffers
                     => heap'[a].m_blockData # last'.result]_vars
    /\ [][(last.op = "DetachBlock" /\ DestroyedNow(last.arg))
            => bufFreed' = bufFreed]_vars
    /\ [][\A b \in Buffers :
            FreedNow(b)
            => /\ Len(bufFreed'[b]) = Len(bufFreed[b]) + 1
               /\ \E a \in Addrs :
                     /\ DestroyedNow(a)
                     /\ heap[a].m_blockData = b
                     /\ heap[a].m_allocator # NULL]_vars

\* DetachBlock just took the block off a message that holds two references;
\* the buffer is with the caller, unfreed.
C17_Witness ==
    /\ last.op = "DetachBlock"
    /\ last.result \in Buffers
    /\ heap[last.arg].m_refCount = 2
    /\ last.result \in CallerOwned

\* C18: only the factory that created a message destroys it: a
\* ReleaseMessage through another factory that takes the last reference does
\* not delete the message through that factory, and with leak tracking
\* compiled in the call is detected (it fails its assert).  In SpecForeign
\* every message is created by factory 1.
C18_DestroyedOnlyByCreator ==
    [][\A a \in Addrs :
         (/\ last'.op = "ReleaseMessage"
          /\ last'.arg = a
          /\ last'.f # 1
          /\ heap[a].live
          /\ heap[a].m_refCount = 1)
         => /\ ~DestroyedNow(a)
            /\ debugLeaks => aborted']_vars

Getters == {"GetId", "GetType", "GetRefCount", "IsBlockMessage"}

\* The value a getter reads.
Field(op, msg) ==
    CASE op = "GetId" -> msg.m_id
      [] op = "GetType" -> msg.m_type
      [] op = "GetRefCount" -> msg.m_refCount
      [] op = "IsBlockMessage" -> msg.m_blockMessage

\* C19: GetId, GetType, GetRefCount and IsBlockMessage return the field and
\* change nothing.  The type and the block flag of a message never change
\* while it lives, whatever is called (AcquireMessage, a ReleaseMessage that
\* leaves references, SetId, AttachBlock, DetachBlock, ClearErrorLevel).
\* AcquireMessage and ReleaseMessage also leave its id and its block fields
\* unchanged.
C19_TypeImmutableGettersPure ==
    /\ [][last'.op \in Getters
            => /\ last'.result = Field(last'.op, heap[last'.arg])
               /\ NothingChanged
               /\ aborted' = aborted]_vars
    /\ [][\A a \in Addrs :
            (heap[a].live /\ heap'[a].live)
            => /\ heap'[a].m_type = heap[a].m_type
               /\ heap'[a].m_blockMessage = heap[a].m_blockMessage]_vars
    /\ [][\A a \in Addrs :
            (/\ last'.op \in {"AcquireMessage", "ReleaseMessage"}
             /\ heap[a].live
             /\ heap'[a].live)
            => /\ heap'[a].m_id = heap[a].m_id
               /\ heap'[a].m_allocator = heap[a].m_allocator
               /\ heap'[a].m_blockData = heap[a].m_blockData
               /\ heap'[a].m_blockSize = heap[a].m_blockSize]_vars

\* GetType just returned 1 for a BlockMessage that has had its id set, a
\* block attached and a second reference taken.
C19_Witness ==
    /\ last.op = "GetType"
    /\ last.result = 1
    /\ heap[last.arg].m_id = 7
    /\ heap[last.arg].m_blockData \in Buffers
    /\ heap[last.arg].m_refCount = 2
    /\ heap[last.arg].m_blockMessage = 1

AllIdle == \A t \in Threads : thread[t].pc = "idle"

\* C20: m_refCount++ and m_refCount-- are unsynchronized loads and stores.
\* As long as no thread has entered AcquireMessage or ReleaseMessage while
\* another was inside one (the calls are serialized), between calls every
\* live message has m_refCount = 1 + Acquires - Releases >= 1, every other
\* one has no reference left, and none was destroyed twice.  (That an
\* unserialized run loses an update is C20_Witness.)
C20_SerializedNoLostUpdate ==
    (~raced /\ AllIdle)
    => \A a \in Addrs :
          /\ heap[a].live => heap[a].m_refCount = refs[a] /\ refs[a] >= 1
          /\ ~heap[a].live => refs[a] = 0
          /\ destroyed[a] <= 1

\* Two threads were inside calls on the same message at once and an update
\* was lost: all calls have returned, every reference has been released, and
\* the message is still there with m_refCount = 1 (a leak).
C20_Witness ==
    /\ raced
    /\ AllIdle
    /\ \E a \in Addrs :
          /\ heap[a].live
          /\ refs[a] = 0
          /\ heap[a].m_refCount = 1

\* C21: in every state of a BlockMessage the three block fields agree:
\* m_allocator is NULL exactly when m_blockData is NULL, exactly when
\* m_blockSize is 0, so that the destructor's test of m_allocator frees
\* exactly when a block is attached.
C21_BlockFieldsConsistent ==
    \A a \in Addrs :
        (heap[a].live /\ heap[a].m_blockMessage = 1)
        => /\ (heap[a].m_allocator = NULL) <=> (heap[a].m_blockData = NULL)
           /\ (heap[a].m_blockData = NULL) <=> (heap[a].m_blockSize = 0)

\* C22: a factory's error level becomes FAILED_TO_ALLOCATE only in a
\* CreateMessage call on it that returns NULL, and leaves FAILED_TO_ALLOCATE
\* only in a ClearErrorLevel on it; so, starting from NONE, a level of
\* FAILED_TO_ALLOCATE means a CreateMessage returned NULL since construction
\* or the last ClearErrorLevel.  AcquireMessage, ReleaseMessage and a
\* CreateMessage that returns a message never change the level.
C22_FailedOnlyFromFailedCreate ==
    /\ [](last.op = "none" => \A f \in Factories : ErrorLevel(f) # FAILED)
    /\ [][\A f \in Factories :
            /\ (ErrorLevel(f) # FAILED /\ ErrorLevel(f)' = FAILED)
               => /\ last'.op = "CreateMessage"
                  /\ last'.f = f
                  /\ last'.result = NULL
                  /\ ~aborted'
            /\ (ErrorLevel(f) = FAILED /\ ErrorLevel(f)' # FAILED)
               => /\ last'.op = "ClearErrorLevel"
                  /\ last'.f = f
            /\ (\/ last'.op \in {"AcquireMessage", "ReleaseMessage"}
                \/ last'.op = "CreateMessage" /\ last'.result # NULL)
               => ErrorLevel(f)' = ErrorLevel(f)]_vars

\* A message was created and acquired after a CreateMessage had failed: the
\* level is still FAILED_TO_ALLOCATE from that call.
C22_Witness ==
    /\ last.op = "AcquireMessage"
    /\ last.arg # NULL
    /\ heap[last.arg].m_refCount = 2
    /\ ErrorLevel(last.f) = FAILED

\* C23: CreateMessage for a type in [0, numTypes-1] that has no message class
\* declared (the switch's default branch) returns NULL and sets the error
\* level to FAILED_TO_ALLOCATE although YOJIMBO_NEW was never called; it
\* creates and tracks nothing.
C23_UndeclaredTypeSetsFailed ==
    [][(/\ last'.op = "CreateMessage"
        /\ InRange(last'.f, last'.arg)
        /\ last'.arg \notin DeclaredTypes)
        => /\ last'.result = NULL
           /\ ~aborted'
           /\ last'.news = 0
           /\ ~last'.exhausted
           /\ factory'[last'.f].m_errorLevel = FAILED
           /\ factory'[last'.f].allocated_messages =
                 factory[last'.f].allocated_messages
           /\ heap' = heap
           /\ refs' = refs]_vars

\* CreateMessage( 2 ) just failed while a message was alive and memory for
\* another one was free.
C23_Witness ==
    /\ last.op = "CreateMessage"
    /\ last.arg = 2
    /\ last.result = NULL
    /\ last.news = 0
    /\ ErrorLevel(last.f) = FAILED
    /\ FreeAddrs # {}
    /\ \E a \in Addrs : heap[a].live

\* The message holds no block: the state BlockMessage() constructs.
EmptyBlock(msg) ==
    /\ msg.m_allocator = NULL
    /\ msg.m_blockData = NULL
    /\ msg.m_blockSize = 0

\* C24: DetachBlock on a BlockMessage with no block attached, also right
\* after another DetachBlock, returns normally, leaves the message with no
\* block and frees nothing; and an AttachBlock of a block (non-NULL, size
\* > 0) on the same message right after a DetachBlock succeeds and records
\* the new allocator, pointer and size.
C24_DetachIdempotentReattach ==
    /\ [][\A a \in Addrs :
            (/\ last'.op = "DetachBlock"
             /\ last'.arg = a
             /\ heap[a].m_blockData = NULL)
            => /\ ~aborted'
               /\ EmptyBlock(heap'[a])
               /\ last'.result = NULL
               /\ bufFreed' = bufFreed]_vars
    /\ [][(/\ last.op = "DetachBlock"
           /\ last'.op = "DetachBlock"
           /\ last'.arg = last.arg)
            => /\ heap' = heap
               /\ bufFreed' = bufFreed]_vars
    /\ [][(/\ last.op = "DetachBlock"
           /\ last'.op = "AttachBlock"
           /\ last'.arg = last.arg
           /\ last'.block[2] # NULL
           /\ last'.block[3] > 0)
            => /\ ~aborted'
               /\ heap'[last'.arg].m_allocator = last'.block[1]
               /\ heap'[last'.arg].m_blockData = last'.block[2]
               /\ heap'[last'.arg].m_blockSize = last'.block[3]
               /\ bufFreed' = bufFreed]_vars

\* DetachBlock just ran, in a build with assert(), on a live message that
\* had no block attached.
C24_Witness ==
    /\ last.op = "DetachBlock"
    /\ last.result = NULL
    /\ ~ndebug
    /\ ~aborted
    /\ heap[last.arg].live
    /\ EmptyBlock(heap[last.arg])

=============================================================================
